---- MODULE Spec2Model ----
(***************************************************************************)
(* Cursor/navigation state and key dispatcher of the rui text editor       *)
(* (src/src/text_editor.rs).                                               *)
(*                                                                         *)
(* The text is a Rust String: a sequence of UTF-8 bytes.  text.len(),      *)
(* String::insert_str, String::insert and String::remove all work on byte  *)
(* offsets and panic on an offset that is not a character boundary.  The   *)
(* glyph boxes and the line metrics are indexed by glyph.                  *)
(***************************************************************************)
EXTENDS Integers, Sequences, FiniteSets, TLC

\* ---------------------------------------------------------------- bounds
\* longest text, in bytes, the model lets the owner hold
MaxLen == 3
\* width of usize in the model (the arithmetic wraps at 2^UsizeBits)
UsizeBits == 4

Modulus == 2 ^ UsizeBits
UsizeMax == Modulus - 1

\* ------------------------------------------------------------ UTF-8 text
\* "a" and " " are one-byte characters, <<"C3","A9">> is the two-byte
\* character U+00E9.
Bytes == {"a", " ", "C3", "A9"}

IsLead(b) == b = "C3"
IsCont(b) == b = "A9"

\* a well-formed String: every lead byte is followed by its continuation
\* byte and every continuation byte follows a lead byte
IsUtf8(t) ==
    \A i \in 1..Len(t) :
        /\ IsLead(t[i]) => (i < Len(t) /\ IsCont(t[i + 1]))
        /\ IsCont(t[i]) => (i > 1 /\ IsLead(t[i - 1]))

Strings == {t \in UNION {[1..n -> Bytes] : n \in 0..MaxLen} : IsUtf8(t)}

\* the fragments a Character key press carries
Fragments == {<<"a">>, <<"C3", "A9">>}

\* str::is_char_boundary, idx is a byte offset counted from 0
is_char_boundary(t, idx) ==
    \/ idx = 0
    \/ idx = Len(t)
    \/ (idx < Len(t) /\ ~IsCont(t[idx + 1]))

\* char::len_utf8 of the character that starts at byte offset idx
len_utf8(t, idx) == IF IsLead(t[idx + 1]) THEN 2 ELSE 1

\* number of characters of t
NumChars(t) == Cardinality({i \in 1..Len(t) : ~IsCont(t[i])})

\* String::insert_str / String::insert: defined only on a char boundary
insert_panics(t, idx) == ~is_char_boundary(t, idx)
insert_str(t, idx, s) == SubSeq(t, 1, idx) \o s \o SubSeq(t, idx + 1, Len(t))

\* String::remove: removes the whole character that starts at idx
remove_panics(t, idx) == idx >= Len(t) \/ ~is_char_boundary(t, idx)
remove(t, idx) ==
    SubSeq(t, 1, idx) \o SubSeq(t, idx + 1 + len_utf8(t, idx), Len(t))

\* ------------------------------------------------- layout collaborator
\* advance width of the glyph of the character whose first byte is b
Advance(b) == CASE b = " " -> 1 [] b = "a" -> 4 [] OTHER -> 2
LineHeight == 2
\* the wrap widths (rect.width()) a frame can be drawn with
BreakWidths == {5, 9}

\* the advance widths of the characters of t, one glyph per character
RECURSIVE GlyphAdvances(_, _)
GlyphAdvances(t, i) ==
    IF i > Len(t) THEN <<>>
    ELSE IF IsCont(t[i]) THEN GlyphAdvances(t, i + 1)
    ELSE <<Advance(t[i])>> \o GlyphAdvances(t, i + 1)

\* greedy wrapping: a glyph that does not fit starts the next line
RECURSIVE Place(_, _, _, _, _)
Place(ws, i, x, row, bw) ==
    IF i > Len(ws) THEN <<>>
    ELSE LET wrap == x > 0 /\ x + ws[i] > bw
             x0 == IF wrap THEN 0 ELSE x
             r0 == IF wrap THEN row + 1 ELSE row
         IN <<[x |-> x0, y |-> r0 * LineHeight, w |-> ws[i], h |-> LineHeight]>>
            \o Place(ws, i + 1, x0 + ws[i], r0, bw)

\* vger.glyph_positions(text, font_size, break_width)
glyph_positions(t, bw) == Place(GlyphAdvances(t, 1), 1, 0, 0, bw)

\* vger.line_metrics(text, font_size, break_width): one span per line,
\* glyph indices counted from 0, glyph_end exclusive
line_metrics(t, bw) ==
    LET rs == glyph_positions(t, bw)
        rowOf(i) == rs[i].y \div LineHeight
        nrows == IF rs = <<>> THEN 0 ELSE rowOf(Len(rs)) + 1
        inRow(r) == {i \in 1..Len(rs) : rowOf(i) = r}
        first(r) == CHOOSE i \in inRow(r) : \A j \in inRow(r) : i <= j
        last_(r) == CHOOSE i \in inRow(r) : \A j \in inRow(r) : i >= j
    IN [r \in 1..nrows |->
          [glyph_start |-> first(r - 1) - 1, glyph_end |-> last_(r - 1)]]

\* ---------------------------------------------------- TextEditorState
\* LocalRect::center, both coordinates scaled by 2 to stay integral
center(r) == [x |-> 2 * r.x + r.w, y |-> 2 * r.y + r.h]

\* LocalPoint::distance_to, squared (the order of distances is kept)
distance_to(p, q) == (p.x - q.x) * (p.x - q.x) + (p.y - q.y) * (p.y - q.y)

\* std::f32::MAX: larger than every distance of the model
F32Max == 1000000

\* fwd without the clamp to len - 1
fwd_unclamped(c, len, oc) ==
    [cursor |-> (c + 1) % Modulus, panic |-> oc /\ c + 1 > UsizeMax]

\* fwd that lets the cursor reach len
fwd_clamp_to_len(c, len, oc) ==
    LET c1 == (c + 1) % Modulus
    IN [cursor |-> IF c1 > len THEN len ELSE c1, panic |-> oc /\ c + 1 > UsizeMax]

\* TextEditorState::fwd.  oc: the build checks arithmetic overflow
\* (debug) or wraps (release).
fwd(c, len, oc) ==
    LET addOverflows == c + 1 > UsizeMax
        c1 == (c + 1) % Modulus
        subOverflows == c1 >= len /\ len = 0
    IN [cursor |-> IF c1 >= len THEN (len - 1) % Modulus ELSE c1,
        panic  |-> oc /\ (addOverflows \/ subOverflows)]

\* back that stops at 1
back_above_one(c) == IF c > 1 THEN c - 1 ELSE c

\* TextEditorState::back
back(c) == IF c > 0 THEN c - 1 ELSE c

\* TextEditorState::find_line: the loop from line index i (from 0) on
RECURSIVE find_line_from(_, _, _)
find_line_from(c, ls, i) ==
    IF i >= Len(ls) THEN i
    ELSE IF c >= ls[i + 1].glyph_start /\ c < ls[i + 1].glyph_end THEN i
    ELSE find_line_from(c, ls, i + 1)

\* find_line that takes glyph_end as part of the span
RECURSIVE find_line_from_end_inclusive(_, _, _)
find_line_from_end_inclusive(c, ls, i) ==
    IF i >= Len(ls) THEN i
    ELSE IF c >= ls[i + 1].glyph_start /\ c <= ls[i + 1].glyph_end THEN i
    ELSE find_line_from_end_inclusive(c, ls, i + 1)

find_line_end_inclusive(c, ls) == find_line_from_end_inclusive(c, ls, 0)

find_line(c, ls) == find_line_from(c, ls, 0)

\* the loop of closest_in_range with dp <= d: the last of the nearest wins
RECURSIVE closest_loop_last_wins(_, _, _, _, _, _)
closest_loop_last_wins(p, i, to, rects, d, closest) ==
    IF i >= to THEN closest
    ELSE LET dp == distance_to(center(rects[i + 1]), p)
         IN IF dp <= d THEN closest_loop_last_wins(p, i + 1, to, rects, dp, i)
            ELSE closest_loop_last_wins(p, i + 1, to, rects, d, closest)

\* TextEditorState::closest_in_range: the loop over i in from..to-1 with
\* the running minimum d and its index closest
RECURSIVE closest_loop(_, _, _, _, _, _)
closest_loop(p, i, to, rects, d, closest) ==
    IF i >= to THEN closest
    ELSE LET dp == distance_to(center(rects[i + 1]), p)
         IN IF dp < d THEN closest_loop(p, i + 1, to, rects, dp, i)
            ELSE closest_loop(p, i + 1, to, rects, d, closest)

\* rects[i] is out of bounds for some i of the range
closest_panics(from, to, rects) == \E i \in from..(to - 1) : i >= Len(rects)

\* closest_in_range with the running minimum started at 0
closest_in_range_from_zero(p, from, to, rects) == closest_loop(p, from, to, rects, 0, 0)

closest_in_range(p, from, to, rects) == closest_loop(p, from, to, rects, F32Max, 0)

\* TextEditorState::down
down(c, rects, ls) ==
    IF c >= Len(rects) THEN [cursor |-> c, panic |-> TRUE]
    ELSE LET p == center(rects[c + 1])
             line == find_line(c, ls) + 1
         IN IF line < Len(ls)
            THEN LET metrics == ls[line + 1]
                 IN IF closest_panics(metrics.glyph_start, metrics.glyph_end, rects)
                    THEN [cursor |-> c, panic |-> TRUE]
                    ELSE [cursor |-> closest_in_range(p, metrics.glyph_start,
                                                      metrics.glyph_end, rects),
                          panic |-> FALSE]
            ELSE [cursor |-> c, panic |-> FALSE]

\* TextEditorState::up
up(c, rects, ls) ==
    IF c >= Len(rects) THEN [cursor |-> c, panic |-> TRUE]
    ELSE LET p == center(rects[c + 1])
             line == find_line(c, ls)
         IN IF line > 0
            THEN LET metrics == ls[line]
                 IN IF closest_panics(metrics.glyph_start, metrics.glyph_end, rects)
                    THEN [cursor |-> c, panic |-> TRUE]
                    ELSE [cursor |-> closest_in_range(p, metrics.glyph_start,
                                                      metrics.glyph_end, rects),
                          panic |-> FALSE]
            ELSE [cursor |-> c, panic |-> FALSE]

\* --------------------------------------------------------- KeyPress
KeyNames == {"ArrowLeft", "ArrowRight", "ArrowUp", "ArrowDown", "Backspace",
             "Character", "Space", "Home", "End", "Other"}

KeyPress(name, frag) == [key |-> name, frag |-> frag]

\* the arms of the match in TextEditorState::key; each gives the new
\* cursor, the returned text, and whether the call panics instead
key_Backspace(c, t) ==
    IF c > 0
    THEN IF remove_panics(t, c - 1)
         THEN [cursor |-> c, text |-> t, panic |-> TRUE]
         ELSE [cursor |-> back(c), text |-> remove(t, c - 1), panic |-> FALSE]
    ELSE [cursor |-> c, text |-> t, panic |-> FALSE]

key_Character(c, t, frag, oc) ==
    IF insert_panics(t, c)
    THEN [cursor |-> c, text |-> t, panic |-> TRUE]
    ELSE [cursor |-> (c + Len(frag)) % Modulus,
          text |-> insert_str(t, c, frag),
          panic |-> oc /\ c + Len(frag) > UsizeMax]

key_Space(c, t, oc) ==
    IF insert_panics(t, c)
    THEN [cursor |-> c, text |-> t, panic |-> TRUE]
    ELSE [cursor |-> (c + 1) % Modulus,
          text |-> insert_str(t, c, <<" ">>),
          panic |-> oc /\ c + 1 > UsizeMax]

key_Home(c, t) == [cursor |-> 0, text |-> t, panic |-> FALSE]

\* End that stops on the last byte
key_End_last_byte(c, t) == [cursor |-> back(Len(t)), text |-> t, panic |-> FALSE]

key_End(c, t) == [cursor |-> Len(t), text |-> t, panic |-> FALSE]

\* an unhandled key that returns a fresh String
key_Other_fresh_string(c, t) == [cursor |-> c, text |-> <<>>, panic |-> FALSE]

key_Other(c, t) == [cursor |-> c, text |-> t, panic |-> FALSE]

\* TextEditorState::key
key(k, c, rects, ls, t, oc) ==
    CASE k.key = "ArrowLeft" ->
           [cursor |-> back(c), text |-> t, panic |-> FALSE]
      [] k.key = "ArrowRight" ->
           LET r == fwd(c, Len(t), oc)
           IN [cursor |-> r.cursor, text |-> t, panic |-> r.panic]
      [] k.key = "ArrowUp" ->
           LET r == up(c, rects, ls)
           IN [cursor |-> r.cursor, text |-> t, panic |-> r.panic]
      [] k.key = "ArrowDown" ->
           LET r == down(c, rects, ls)
           IN [cursor |-> r.cursor, text |-> t, panic |-> r.panic]
      [] k.key = "Backspace" -> key_Backspace(c, t)
      [] k.key = "Character" -> key_Character(c, t, k.frag, oc)
      [] k.key = "Space" -> key_Space(c, t, oc)
      [] k.key = "Home" -> key_Home(c, t)
      [] k.key = "End" -> key_End(c, t)
      [] OTHER -> key_Other(c, t)

\* ------------------------------------------------------------- state
VARIABLES
    cursor,           \* TextEditorState.cursor
    glyph_rects,      \* TextEditorState.glyph_rects
    lines,            \* TextEditorState.lines
    text,             \* the owner's text, passed to the editor each frame
    has_focus,        \* the flag the focus view passes to the editor
    overflow_checks,  \* the build panics on integer overflow (else wraps)
    status,           \* "running", or "panicked" once a handler has panicked
    last              \* the key event just delivered and the state it met

vars == <<cursor, glyph_rects, lines, text, has_focus, overflow_checks, status, last>>

NoKey == [key |-> "None", frag |-> <<>>, cursor |-> 0, text |-> <<>>, focus |-> FALSE]

\* TextEditorState::new, for a text of the owner's choice
Init ==
    /\ cursor = 0
    /\ glyph_rects = <<>>
    /\ lines = <<>>
    /\ text \in Strings
    /\ has_focus = FALSE
    /\ overflow_checks \in BOOLEAN
    /\ status = "running"
    /\ last = NoKey

\* the focus view hands the editor the focus, or takes it away
GainFocus ==
    /\ status = "running"
    /\ ~has_focus
    /\ has_focus' = TRUE
    /\ last' = NoKey
    /\ UNCHANGED <<cursor, glyph_rects, lines, text, overflow_checks, status>>

LoseFocus ==
    /\ status = "running"
    /\ has_focus
    /\ has_focus' = FALSE
    /\ last' = NoKey
    /\ UNCHANGED <<cursor, glyph_rects, lines, text, overflow_checks, status>>

\* the canvas closure: lay the text out, draw the caret at rects[cursor]
\* when focused, store the snapshot
Refresh ==
    /\ status = "running"
    /\ \E bw \in BreakWidths :
         LET rects == glyph_positions(text, bw)
             ls == line_metrics(text, bw)
         IN IF has_focus /\ cursor >= Len(rects)
            THEN /\ status' = "panicked"
                 /\ UNCHANGED <<glyph_rects, lines>>
            ELSE /\ glyph_rects' = rects
                 /\ lines' = ls
                 /\ UNCHANGED status
    /\ last' = NoKey
    /\ UNCHANGED <<cursor, text, has_focus, overflow_checks>>

\* the key closure without the has_focus test
OnKey_unconditional(k) ==
    /\ status = "running"
    /\ Len(text) + Len(k.frag) <= MaxLen
    /\ last' = [key |-> k.key, frag |-> k.frag, cursor |-> cursor,
                text |-> text, focus |-> has_focus]
    /\ LET r == key(k, cursor, glyph_rects, lines, text, overflow_checks)
       IN IF r.panic
          THEN /\ status' = "panicked"
               /\ UNCHANGED <<cursor, text>>
          ELSE /\ cursor' = r.cursor
               /\ text' = r.text
               /\ UNCHANGED status
    /\ UNCHANGED <<glyph_rects, lines, has_focus, overflow_checks>>

\* the key closure: dispatch to TextEditorState::key when focused and hand
\* the returned text to set_text
OnKey(k) ==
    /\ status = "running"
    /\ Len(text) + Len(k.frag) <= MaxLen
    /\ last' = [key |-> k.key, frag |-> k.frag, cursor |-> cursor,
                text |-> text, focus |-> has_focus]
    /\ IF has_focus
       THEN LET r == key(k, cursor, glyph_rects, lines, text, overflow_checks)
            IN IF r.panic
               THEN /\ status' = "panicked"
                    /\ UNCHANGED <<cursor, text>>
               ELSE /\ cursor' = r.cursor
                    /\ text' = r.text
                    /\ UNCHANGED status
       ELSE UNCHANGED <<cursor, text, status>>
    /\ UNCHANGED <<glyph_rects, lines, has_focus, overflow_checks>>

ArrowLeft == OnKey(KeyPress("ArrowLeft", <<>>))
ArrowRight == OnKey(KeyPress("ArrowRight", <<>>))
ArrowUp == OnKey(KeyPress("ArrowUp", <<>>))
ArrowDown == OnKey(KeyPress("ArrowDown", <<>>))
Backspace == OnKey(KeyPress("Backspace", <<>>))
Character == \E f \in Fragments : OnKey(KeyPress("Character", f))
Space == OnKey(KeyPress("Space", <<" ">>))
Home == OnKey(KeyPress("Home", <<>>))
End == OnKey(KeyPress("End", <<>>))
Other == OnKey(KeyPress("Other", <<>>))

Next ==
    \/ GainFocus
    \/ LoseFocus
    \/ Refresh
    \/ ArrowLeft
    \/ ArrowRight
    \/ ArrowUp
    \/ ArrowDown
    \/ Backspace
    \/ Character
    \/ Space
    \/ Home
    \/ End
    \/ Other

Spec == Init /\ [][Next]_vars

\* ------------------------------------------- the synchronised regime
\* every character is one byte, so that glyph i is byte i of the text
IsAscii(t) == \A i \in 1..Len(t) : ~IsLead(t[i]) /\ ~IsCont(t[i])

\* the stored snapshot is the layout of the current text
GeometryCurrent ==
    \E bw \in BreakWidths :
        /\ glyph_rects = glyph_positions(text, bw)
        /\ lines = line_metrics(text, bw)

InitSync == Init /\ IsAscii(text)

\* a key is delivered only after the frame has refreshed the snapshot, and
\* Character carries one-byte characters only
ArrowLeftSync == GeometryCurrent /\ ArrowLeft
ArrowRightSync == GeometryCurrent /\ ArrowRight
ArrowUpSync == GeometryCurrent /\ ArrowUp
ArrowDownSync == GeometryCurrent /\ ArrowDown
BackspaceSync == GeometryCurrent /\ Backspace
CharacterSync == GeometryCurrent /\ OnKey(KeyPress("Character", <<"a">>))
SpaceSync == GeometryCurrent /\ Space
HomeSync == GeometryCurrent /\ Home
EndSync == GeometryCurrent /\ End
OtherSync == GeometryCurrent /\ Other

NextSync ==
    \/ GainFocus
    \/ LoseFocus
    \/ Refresh
    \/ ArrowLeftSync
    \/ ArrowRightSync
    \/ ArrowUpSync
    \/ ArrowDownSync
    \/ BackspaceSync
    \/ CharacterSync
    \/ SpaceSync
    \/ HomeSync
    \/ EndSync
    \/ OtherSync

SpecSync == InitSync /\ [][NextSync]_vars

\* ------------------------------------------------------------ claims
\* a key event was just dispatched to TextEditorState::key
Dispatched(names) == last.key \in names /\ last.focus

\* C1: with one glyph per character and the snapshot refreshed before each
\* key event, the cursor indexes a glyph whenever the text has one, and is
\* 0 whenever the text is empty.
C1_CursorIndexesGlyph ==
    status = "running" =>
        /\ NumChars(text) > 0 => cursor < NumChars(text)
        /\ text = <<>> => cursor = 0

\* C2: on a non-empty text, from a cursor inside the text, ArrowLeft and
\* ArrowRight return with the cursor still inside the text and the text
\* unchanged.
C2_ArrowsStayInText ==
    (Dispatched({"ArrowLeft", "ArrowRight"}) /\ last.text # <<>>
        /\ last.cursor < Len(last.text))
    => /\ status = "running"
       /\ cursor < Len(last.text)
       /\ text = last.text

\* ArrowRight met the cursor on the last byte and left it there
C2_Witness ==
    /\ Dispatched({"ArrowRight"})
    /\ Len(last.text) = MaxLen
    /\ last.cursor = MaxLen - 1
    /\ cursor = MaxLen - 1
    /\ status = "running"

\* C3: on the empty text with the cursor at 0, ArrowRight, ArrowLeft and
\* Backspace return, leave the cursor at 0 and the text empty.
C3_EmptyTextNoOps ==
    (Dispatched({"ArrowRight", "ArrowLeft", "Backspace"}) /\ last.text = <<>>
        /\ last.cursor = 0)
    => /\ status = "running"
       /\ cursor = 0
       /\ text = <<>>

\* C4: from every cursor c <= text.len(), Character(f) returns
\* text[0..c] ++ f ++ text[c..] and sets the cursor to c + f.len(); Space
\* does the same with a single space.
C4_InsertAtCursor ==
    (Dispatched({"Character", "Space"}) /\ last.cursor <= Len(last.text))
    => /\ status = "running"
       /\ text = SubSeq(last.text, 1, last.cursor) \o last.frag
                 \o SubSeq(last.text, last.cursor + 1, Len(last.text))
       /\ cursor = last.cursor + Len(last.frag)
       /\ last.key = "Space" => last.frag = <<" ">>

\* C5: from every cursor c <= text.len(), Backspace with c > 0 removes
\* exactly the element at offset c - 1 and sets the cursor to c - 1, and
\* with c = 0 returns the text unchanged and leaves the cursor at 0.
C5_BackspaceRemovesOne ==
    (Dispatched({"Backspace"}) /\ last.cursor <= Len(last.text))
    => /\ status = "running"
       /\ IF last.cursor > 0
          THEN /\ text = SubSeq(last.text, 1, last.cursor - 1)
                         \o SubSeq(last.text, last.cursor + 1, Len(last.text))
               /\ cursor = last.cursor - 1
          ELSE /\ text = last.text
               /\ cursor = 0

\* C6: from any cursor and any text, Home sets the cursor to 0 and End
\* sets it to text.len(); both return the text unchanged.
C6_HomeEnd ==
    /\ Dispatched({"Home"}) =>
          status = "running" /\ cursor = 0 /\ text = last.text
    /\ Dispatched({"End"}) =>
          status = "running" /\ cursor = Len(last.text) /\ text = last.text

\* End moved the cursor from inside a text of the largest length to its end
C6_Witness ==
    /\ Dispatched({"End"})
    /\ Len(last.text) = MaxLen
    /\ last.cursor = 1
    /\ cursor = MaxLen

\* C7: with the cursor past the end of the stored glyph boxes, ArrowUp and
\* ArrowDown return and leave the cursor and the text unchanged.
C7_UpDownPastGlyphsNoOp ==
    (Dispatched({"ArrowUp", "ArrowDown"}) /\ last.cursor >= Len(glyph_rects))
    => /\ status = "running"
       /\ cursor = last.cursor
       /\ text = last.text

\* glyph index i lies in the line span m
InSpan(i, m) == m.glyph_start <= i /\ i < m.glyph_end

\* the spans are non-empty, contiguous and cover the glyphs of rects
SpansWellFormed(rects, ls) ==
    /\ Len(ls) > 0
    /\ ls[1].glyph_start = 0
    /\ ls[Len(ls)].glyph_end = Len(rects)
    /\ \A i \in 1..Len(ls) : ls[i].glyph_start < ls[i].glyph_end
    /\ \A i \in 1..(Len(ls) - 1) : ls[i].glyph_end = ls[i + 1].glyph_start

\* the line (counted from 1) whose span holds glyph c
LineOf(c, ls) == CHOOSE i \in 1..Len(ls) : InSpan(c, ls[i])

\* glyph c2 lies in span m and no glyph of m has its center nearer to the
\* center of glyph c
NearestIn(c2, c, m, rects) ==
    /\ InSpan(c2, m)
    /\ \A j \in m.glyph_start..(m.glyph_end - 1) :
          distance_to(center(rects[c2 + 1]), center(rects[c + 1]))
             <= distance_to(center(rects[j + 1]), center(rects[c + 1]))

\* C8: on well-formed spans with the cursor in line L, ArrowDown moves the
\* cursor to the glyph of line L+1 nearest to the old glyph, or nowhere
\* when L is the last line; ArrowUp likewise with line L-1 and the first
\* line.  The text is unchanged.
C8_UpDownNearestInAdjacentLine ==
    LET ok == SpansWellFormed(glyph_rects, lines) /\ last.cursor < Len(glyph_rects)
        L == LineOf(last.cursor, lines)
    IN /\ (Dispatched({"ArrowDown"}) /\ ok) =>
             /\ status = "running"
             /\ text = last.text
             /\ IF L < Len(lines)
                THEN NearestIn(cursor, last.cursor, lines[L + 1], glyph_rects)
                ELSE cursor = last.cursor
       /\ (Dispatched({"ArrowUp"}) /\ ok) =>
             /\ status = "running"
             /\ text = last.text
             /\ IF L > 1
                THEN NearestIn(cursor, last.cursor, lines[L - 1], glyph_rects)
                ELSE cursor = last.cursor

\* ArrowUp from the second line landed on the second glyph of the first
C8_Witness ==
    /\ Dispatched({"ArrowUp"})
    /\ SpansWellFormed(glyph_rects, lines)
    /\ last.cursor < Len(glyph_rects)
    /\ LineOf(last.cursor, lines) = 2
    /\ cursor = 1
    /\ status = "running"

\* C9: the arrow keys, Home, End and an unhandled key return the text as
\* passed in; an unhandled key also leaves the cursor where it was.
C9_NonEditingKeysKeepText ==
    /\ Dispatched({"ArrowLeft", "ArrowRight", "ArrowUp", "ArrowDown",
                   "Home", "End", "Other"}) => text = last.text
    /\ Dispatched({"Other"}) => status = "running" /\ cursor = last.cursor

\* an unhandled key met a cursor inside a text of the largest length
C9_Witness ==
    /\ Dispatched({"Other"})
    /\ Len(last.text) = MaxLen
    /\ last.cursor = 2
    /\ status = "running"

\* C10: a key event that arrives while the editor has no focus changes
\* neither the cursor, the stored geometry nor the text.
C10_UnfocusedKeyIgnored ==
    [][(~has_focus /\ last'.key # "None")
          => UNCHANGED <<cursor, glyph_rects, lines, text, status>>]_vars

\* End arrived without focus at a non-empty text with the cursor at 0
C10_Witness ==
    /\ last.key = "End"
    /\ ~last.focus
    /\ ~has_focus
    /\ text # <<>>
    /\ cursor = 0

\* ------------------------------------------ navigation on any snapshot
\* The stored snapshot is whatever the last frame left: it need not match
\* the cursor, and its spans need not be well-formed.
\* most glyph boxes, and most line spans, of a stored snapshot
MaxGlyphs == 2
MaxLines == 2

\* glyph boxes with the centers (1,1) and (5,1)
NavRects ==
    {[x |-> 0, y |-> 0, w |-> 1, h |-> 1],
     [x |-> 2, y |-> 0, w |-> 1, h |-> 1]}

NavSpans ==
    {[glyph_start |-> a, glyph_end |-> b] : a \in 0..MaxGlyphs, b \in 0..MaxGlyphs}
       \ {m \in [glyph_start : 0..MaxGlyphs, glyph_end : 0..MaxGlyphs] :
             m.glyph_start > m.glyph_end}

InitNav ==
    /\ cursor \in 0..MaxGlyphs
    /\ glyph_rects \in UNION {[1..n -> NavRects] : n \in 0..MaxGlyphs}
    /\ lines \in UNION {[1..n -> NavSpans] : n \in 0..MaxLines}
    /\ text = <<"a">>
    /\ has_focus = TRUE
    /\ overflow_checks = TRUE
    /\ status = "running"
    /\ last = NoKey

ArrowUpNav == has_focus /\ ArrowUp
ArrowDownNav == has_focus /\ ArrowDown

NextNav ==
    \/ ArrowUpNav
    \/ ArrowDownNav

SpecNav == InitNav /\ [][NextNav]_vars

\* no span of ls holds glyph c
Uncovered(c, ls) == \A i \in 1..Len(ls) : ~InSpan(c, ls[i])

\* C11: with the cursor on a stored glyph box but in no line span, and at
\* least one span stored, ArrowDown and ArrowUp return and leave the cursor
\* where it was.
C11_UncoveredCursorNoOp ==
    (Dispatched({"ArrowDown", "ArrowUp"}) /\ last.cursor < Len(glyph_rects)
        /\ Len(lines) > 0 /\ Uncovered(last.cursor, lines))
    => /\ status = "running"
       /\ cursor = last.cursor

\* the span ArrowDown (ArrowUp) searches from a covered cursor c, if any:
\* the one after (before) the first span that holds c
FirstLineOf(c, ls) ==
    CHOOSE i \in 1..Len(ls) : InSpan(c, ls[i]) /\ \A j \in 1..(i - 1) : ~InSpan(c, ls[j])

HasTargetSpan(k, c, ls) ==
    /\ ~Uncovered(c, ls)
    /\ IF k = "ArrowDown" THEN FirstLineOf(c, ls) < Len(ls) ELSE FirstLineOf(c, ls) > 1

TargetSpan(k, c, ls) ==
    IF k = "ArrowDown" THEN ls[FirstLineOf(c, ls) + 1] ELSE ls[FirstLineOf(c, ls) - 1]

\* C12: when the adjacent target line exists but its span is empty,
\* ArrowDown (ArrowUp) returns and leaves the cursor where it was.
C12_EmptyTargetSpanNoOp ==
    (Dispatched({"ArrowDown", "ArrowUp"}) /\ last.cursor < Len(glyph_rects)
        /\ HasTargetSpan(last.key, last.cursor, lines)
        /\ TargetSpan(last.key, last.cursor, lines).glyph_start
             = TargetSpan(last.key, last.cursor, lines).glyph_end)
    => /\ status = "running"
       /\ cursor = last.cursor

\* C13: a frame drawn while the editor has focus finds a glyph box at
\* rects[cursor], so no frame refresh panics: a panic, if any, comes from
\* a key event.
C13_RefreshNeverTraps ==
    status = "panicked" => last.key # "None"

\* C14: find_line returns the index of the first span that holds the
\* cursor; on well-formed spans and a cursor on a glyph there is one; when
\* no span holds the cursor it returns lines.len().
C14_FindLineFirstHoldingSpan ==
    Dispatched({"ArrowDown", "ArrowUp"}) =>
        LET c == last.cursor
            i == find_line(c, lines)
        IN /\ ~Uncovered(c, lines) =>
                 /\ i < Len(lines)
                 /\ InSpan(c, lines[i + 1])
                 /\ \A j \in 1..i : ~InSpan(c, lines[j])
           /\ Uncovered(c, lines) => i = Len(lines)
           /\ (SpansWellFormed(glyph_rects, lines) /\ c < Len(glyph_rects)) =>
                 i < Len(lines) /\ InSpan(c, lines[i + 1])

\* an arrow key looked up a cursor that the second of two well-formed
\* spans holds
C14_Witness ==
    /\ Dispatched({"ArrowDown", "ArrowUp"})
    /\ SpansWellFormed(glyph_rects, lines)
    /\ Len(lines) = 2
    /\ last.cursor < Len(glyph_rects)
    /\ find_line(last.cursor, lines) = 1

\* the points the search is asked about
\* (3,3) is as far from one center as from the other
NavPoints == {center(r) : r \in NavRects} \cup {[x |-> 0, y |-> 0], [x |-> 3, y |-> 3]}

\* C15: on a non-empty range of stored glyphs, closest_in_range returns an
\* index of the range whose center is at minimum distance from p, the
\* lowest such index, and the only index of a one-element range.
C15_ClosestIsLowestNearest ==
    \A p \in NavPoints :
      \A a \in 0..(Len(glyph_rects) - 1) :
        \A b \in (a + 1)..Len(glyph_rects) :
          LET r == closest_in_range(p, a, b, glyph_rects)
              D(i) == distance_to(center(glyph_rects[i + 1]), p)
          IN /\ a <= r /\ r < b
             /\ \A j \in a..(b - 1) : D(r) <= D(j) /\ (D(j) = D(r) => r <= j)
             /\ b = a + 1 => r = a

\* an arrow key searched a span in which a later glyph is as near as the
\* glyph the cursor moved to (two glyphs with the same box)
C15_Witness ==
    /\ Dispatched({"ArrowDown", "ArrowUp"})
    /\ status = "running"
    /\ last.cursor < Len(glyph_rects)
    /\ HasTargetSpan(last.key, last.cursor, lines)
    /\ LET m == TargetSpan(last.key, last.cursor, lines)
           p == center(glyph_rects[last.cursor + 1])
           D(i) == distance_to(center(glyph_rects[i + 1]), p)
       IN /\ m.glyph_end <= Len(glyph_rects)
          /\ InSpan(cursor, m)
          /\ \E j \in (cursor + 1)..(m.glyph_end - 1) : D(j) = D(cursor)

Min(a, b) == IF a <= b THEN a ELSE b

\* C16: on a text of length n >= 1, ArrowRight sets the cursor to
\* min(cursor + 1, n - 1), so never to n or beyond; from n it goes to n - 1.
C16_ForwardClampsToLastByte ==
    (Dispatched({"ArrowRight"}) /\ Len(last.text) >= 1)
    => /\ status = "running"
       /\ cursor = Min(last.cursor + 1, Len(last.text) - 1)
       /\ cursor < Len(last.text)

\* ArrowRight met the cursor at the end of a text of the largest length
C16_Witness ==
    /\ Dispatched({"ArrowRight"})
    /\ Len(last.text) = MaxLen
    /\ last.cursor = MaxLen
    /\ cursor = MaxLen - 1

\* C17: away from the edges (0 < c < n - 1), back then fwd, and fwd then
\* back, return the cursor to c.
C17_BackFwdRoundTrip ==
    (0 < cursor /\ cursor < Len(text) - 1) =>
        LET n == Len(text)
            bf == fwd(back(cursor), n, overflow_checks)
            f == fwd(cursor, n, overflow_checks)
        IN /\ ~bf.panic /\ bf.cursor = cursor
           /\ ~f.panic /\ back(f.cursor) = cursor

\* ArrowLeft has just moved the cursor off an inner position
C17_Witness ==
    /\ Dispatched({"ArrowLeft"})
    /\ 0 < last.cursor
    /\ last.cursor < Len(last.text) - 1
    /\ cursor = last.cursor - 1
    /\ text = last.text

\* C18: with one glyph per character and the snapshot refreshed before
\* each key event, the cursor is always an offset of the text:
\* cursor <= text.len().
C18_CursorIsEditOffset ==
    status = "running" => cursor <= Len(text)

\* C19: a key event leaves the stored glyph boxes and line spans as they
\* are; a frame refresh stores the snapshot of the current text as both
\* and leaves the cursor and the text as they are.
C19_KeyAndFrameDisjoint ==
    [][/\ last'.key # "None" => UNCHANGED <<glyph_rects, lines>>
       /\ Refresh =>
             /\ \E bw \in BreakWidths :
                   /\ glyph_rects' = glyph_positions(text, bw)
                   /\ lines' = line_metrics(text, bw)
             /\ UNCHANGED <<cursor, text>>]_vars

====
